---- MODULE Spec2Model ----
(***************************************************************************)
(* Model of the SV2P rollout of                                            *)
(* tensor2tensor/models/research/next_frame_sv2p.py:                       *)
(*   NextFrameSv2p.construct_model          (first step + tf.scan)         *)
(*   NextFrameSv2pTwoFrames.construct_model (explicit python loop)         *)
(* together with get_scheduled_sample_inputs and the control structure of  *)
(* construct_predictive_tower / bottom_part_tower.                         *)
(*                                                                         *)
(* Tensors are abstracted to what the control flow can tell apart: a       *)
(* frame or reward is a batch of elements tagged with where they come from *)
(* (ground truth of timestep t, prediction of step t, zeros), one conv     *)
(* lstm state is the number of updates it has received (0 is None), and a  *)
(* softmax mask is a positive numerator over a common denominator.         *)
(***************************************************************************)
EXTENDS Integers, Sequences, FiniteSets, TLC

\* ---------------------------------------------------------------- bounds
MaxT == 4          \* longest input sequence (frames)
MaxContext == 2    \* largest video_num_input_frames
MaxBuffer == 2     \* largest reward_prediction_buffer_size
MaxMasks == 2      \* largest num_masks
BatchSize == 1     \* batch elements

\* ------------------------------------------------------ program constants
NumLstm == 7       \* lstm_states = [None] * 7

VARIABLES
  model,          \* the class whose construct_model runs
  hparams,        \* self.hparams
  is_training,    \* self.is_training
  ss_var,         \* scheduled_sample_var bound into ss_func
  T,              \* number of frames in images
  pc,             \* position in construct_model
  err,            \* the exception raised, "none" if none
  step,           \* number of completed steps (scan position / loop index)
  time_step,      \* prev_outputs[0] (Sv2p) / timestep of the next iteration
  pred_image,     \* prev_image / pred_image
  pred_reward,    \* prev_reward / pred_reward
  frame_buf,      \* frame_buf carried by process_single_frame
  lstm_state,     \* the recurrent state bundle owned by construct_model
  latent,         \* the latent handed to the towers
  latent_means,   \* posteriors recorded so far (latent_mean / latent_means)
  first_gen,      \* first_gen_images, first_gen_rewards (Sv2p)
  gen_images,     \* gen_images
  gen_rewards,    \* gen_rewards
  tower,          \* what the last construct_predictive_tower call did
  calls,          \* history: one record per completed step
  result,         \* the value returned by construct_model
  body_out        \* the return_targets of body

vars == <<model, hparams, is_training, ss_var, T, pc, err, step, time_step,
          pred_image, pred_reward, frame_buf, lstm_state, latent,
          latent_means, first_gen, gen_images, gen_rewards, tower, calls,
          result, body_out>>

\* ------------------------------------------------------------- tensors
Batch == 1..BatchSize

\* one tensor with a leading batch axis: every element tagged by its origin
Item(kind, src, t) == [b \in Batch |-> [kind |-> kind, src |-> src, t |-> t]]

\* images[t], rewards[t] of the ground-truth sequence (0-based t)
images(t) == Item("image", "gt", t)
rewards(t) == Item("reward", "gt", t)

\* tf.zeros_like(images[0]), tf.zeros_like(rewards[0])
zeros_like(kind) == Item(kind, "zero", 0)

\* the tensor produced by a network call made by the step with counter t
Pred(kind, t) == Item(kind, "pred", t)

NoLatent == [present |-> FALSE, frames |-> <<>>]

\* construct_latent_tower + get_gaussian_tensor: a sample of the posterior
\* computed from the given ground-truth frames
construct_latent_tower(frames) == [present |-> TRUE, frames |-> frames]

\* ------------------------------------------------- scheduled sampling
\* ss_func = partial(scheduled_sampling_func, scheduled_sample_var=...):
\* the per-batch-element picks (TRUE keeps ground truth) one call may make
SsChoices ==
  IF hparams.scheduled_sampling_mode = "prob"
  THEN {c \in [Batch -> BOOLEAN] :
          /\ (ss_var = 0 => \A b \in Batch : ~c[b])
          /\ (ss_var = 2 => \A b \in Batch : c[b])}
  ELSE {c \in [Batch -> BOOLEAN] :
          Cardinality({b \in Batch : c[b]}) = ss_var}

scheduled_sampling_func(item_gt, item_gen, c) ==
  [b \in Batch |-> IF c[b] THEN item_gt[b] ELSE item_gen[b]]

\* tf.case(pred_fn_pairs, default): the first pair whose predicate holds
RECURSIVE tf_case(_, _)
tf_case(cases, default) ==
  IF cases = <<>> THEN default
  ELSE IF Head(cases)[1] THEN Head(cases)[2]
  ELSE tf_case(Tail(cases), default)

\* faulty variant: the two cases listed in the other order
get_scheduled_sample_inputs_swapped(done_warm_start, groundtruth_items, generated_items, choices) ==
  LET sample == [i \in 1..Len(groundtruth_items) |->
                   scheduled_sampling_func(groundtruth_items[i],
                                           generated_items[i], choices[i])]
      cases == <<
        <<~is_training, [branch |-> "generated", items |-> generated_items,
                         ss_calls |-> 0]>>,
        <<~done_warm_start, [branch |-> "groundtruth",
                             items |-> groundtruth_items, ss_calls |-> 0]>> >>
  IN tf_case(cases, [branch |-> "sample", items |-> sample,
                     ss_calls |-> Len(groundtruth_items)])

\* faulty variant: the not-training case is missing
get_scheduled_sample_inputs_nocase(done_warm_start, groundtruth_items, generated_items, choices) ==
  LET sample == [i \in 1..Len(groundtruth_items) |->
                   scheduled_sampling_func(groundtruth_items[i],
                                           generated_items[i], choices[i])]
      cases == <<
        <<~done_warm_start, [branch |-> "groundtruth",
                             items |-> groundtruth_items, ss_calls |-> 0]>> >>
  IN tf_case(cases, [branch |-> "sample", items |-> sample,
                     ss_calls |-> Len(groundtruth_items)])

get_scheduled_sample_inputs(done_warm_start, groundtruth_items, generated_items, choices) ==
  LET sample == [i \in 1..Len(groundtruth_items) |->
                   scheduled_sampling_func(groundtruth_items[i],
                                           generated_items[i], choices[i])]
      cases == <<
        <<~done_warm_start, [branch |-> "groundtruth",
                             items |-> groundtruth_items, ss_calls |-> 0]>>,
        <<~is_training, [branch |-> "generated", items |-> generated_items,
                         ss_calls |-> 0]>> >>
  IN tf_case(cases, [branch |-> "sample", items |-> sample,
                     ss_calls |-> Len(groundtruth_items)])

\* ------------------------------------------------------------- towers
NoneStates == [i \in 1..NumLstm |-> 0]

\* common_video.conv_lstm_2d: the state after one more update
lstm_func(state) == state + 1

\* bottom_part_tower: the stages it runs and the slots it overwrites
bottom_part_tower(lstm_states) ==
  [stages |-> <<"scale1_conv1", "state1", "state2", "conv2", "state3",
                "state4", "conv3", "conv4", "state5">>,
   lstm_state |-> [i \in 1..NumLstm |->
                     IF i <= 5 THEN lstm_func(lstm_states[i])
                     ELSE lstm_states[i]]]

\* common_video.cdna_transformation: one candidate per kernel
cdna_transformation(num_masks) ==
  [i \in 1..num_masks |-> [kind |-> "cdna", i |-> i]]

\* common_video.dna_transformation: one candidate
dna_transformation == [kind |-> "dna", i |-> 1]

\* 2^n, the positive weight standing for exp(logit)
RECURSIVE Exp2(_)
Exp2(n) == IF n = 0 THEN 1 ELSE 2 * Exp2(n - 1)

\* tf.nn.softmax over the num_masks+1 channels followed by tf.split:
\* channel ch (0-based) gets weight w / (sum of all w)
softmax_split(logits) ==
  [i \in 1..Len(logits) |-> [ch |-> i - 1, w |-> Exp2(logits[i])]]

\* python zip: pairs up to the shorter of the two lists
Min(a, b) == IF a < b THEN a ELSE b
zip(xs, ys) == [i \in 1..Min(Len(xs), Len(ys)) |-> <<xs[i], ys[i]>>]

InputCandidate == [kind |-> "input", i |-> 0]

NoTower == [raised |-> FALSE, stages |-> <<>>, lstm_state |-> NoneStates,
            transformed |-> <<>>, mask_list |-> <<>>, pairs |-> <<>>]

\* the logits convt7 produces for the num_masks+1 channels of one pixel:
\* unequal, so that the channels carry different weights
convt7 == [i \in 1..(hparams.num_masks + 1) |-> i % 2]

\* construct_predictive_tower: stages run, slots overwritten, candidates,
\* masks and the (candidate, mask) products summed into the output
construct_predictive_tower(lstm_states) ==
  LET num_masks == hparams.num_masks
      bottom == bottom_part_tower(lstm_states)
      s6 == [bottom.lstm_state EXCEPT ![6] = lstm_func(@)]
      s7 == [s6 EXCEPT ![7] = lstm_func(@)]
      stages == bottom.stages \o <<"upsample1", "state6", "upsample2",
                                   "state7", "upsample3", "convt4">>
      direct == IF hparams.model_options = "DNA" THEN <<>>
                ELSE <<[kind |-> "sigmoid", i |-> 0]>>
      raised == hparams.model_options = "DNA" /\ num_masks # 1
      transformed ==
        IF hparams.model_options = "CDNA"
        THEN direct \o cdna_transformation(num_masks)
        ELSE IF hparams.model_options = "DNA"
        THEN <<dna_transformation>>
        ELSE direct
      mask_list == softmax_split(convt7)
      pairs == <<<<InputCandidate, mask_list[1]>>>>
               \o zip(transformed, Tail(mask_list))
  IN IF raised
     THEN [raised |-> TRUE, stages |-> stages, lstm_state |-> s7,
           transformed |-> direct, mask_list |-> <<>>, pairs |-> <<>>]
     ELSE [raised |-> FALSE, stages |-> stages \o <<"convt7", "compose">>,
           lstm_state |-> s7, transformed |-> transformed,
           mask_list |-> mask_list, pairs |-> pairs]

\* ------------------------------------------------------------ rollout
\* faulty variant: the scan runs over images[1:] instead of images[1:-1]
NumStepsLong(m, n) == IF m = "Sv2p" THEN 1 + (n - 1) ELSE n - 1

\* number of steps: Sv2p runs the first step and scans images[1:-1];
\* TwoFrames zips range(len(images)-1) with images[:-1]
NumSteps(m, n) ==
  IF m = "Sv2p" THEN 1 + (IF n >= 2 THEN n - 2 ELSE 0) ELSE n - 1

\* faulty variant: the counter skips a value
next_time_step_skip(t) == t + 2

\* time_step += 1 (Sv2p); the next value of range(len(images)-1) (TwoFrames)
next_time_step(t) == t + 1

\* faulty variant: the carried bundle is dropped for a fresh one
carry_states_reset(new_states) == NoneStates

\* the bundle handed on to the next step: outputs[4] / lstm_state
carry_states(new_states) == new_states

\* faulty variant: the reward restarts from zeros when it is not predicted
unpredicted_reward_zero(m, prev_reward, input_reward) == zeros_like("reward")

\* the else branch of "if self.hparams.reward_prediction":
\* pred_reward = prev_reward (Sv2p), pred_reward = input_reward (TwoFrames)
unpredicted_reward(m, prev_reward, input_reward) ==
  IF m = "Sv2p" THEN prev_reward ELSE input_reward

\* common_video.swap_time_and_batch_axes on a time-major sequence of
\* tensors: for every batch element, its entries in time order
swap_time_and_batch_axes(xs) ==
  [b \in Batch |-> [k \in 1..Len(xs) |-> xs[k][b]]]

\* faulty variant: the slice starts one entry late
ignore_input_predictions_late(gen, num_input_frames) ==
  SubSeq(gen, num_input_frames + 1, Len(gen))

\* gen_images[hparams.video_num_input_frames-1:]
ignore_input_predictions(gen, num_input_frames) ==
  SubSeq(gen, num_input_frames, Len(gen))

NoBodyOut == [returned |-> FALSE, targets |-> <<>>, target_reward |-> <<>>]

HParams ==
  [video_num_input_frames : 1..MaxContext,
   reward_prediction_buffer_size : 0..MaxBuffer,
   reward_prediction : BOOLEAN,
   stochastic_model : BOOLEAN,
   model_options : {"CDNA", "DNA", "basic"},
   num_masks : 1..MaxMasks,
   scheduled_sampling_mode : {"prob", "count"}]

Init ==
  /\ model \in {"Sv2p", "TwoFrames"}
  /\ hparams \in HParams
  /\ is_training \in BOOLEAN
  /\ ss_var \in (IF hparams.scheduled_sampling_mode = "prob"
                 THEN 0..2 ELSE 0..BatchSize)
  /\ T \in 2..MaxT
  /\ pc = "start"
  /\ err = "none"
  /\ step = 0
  /\ time_step = 0
  /\ pred_image = zeros_like("image")
  /\ pred_reward = zeros_like("reward")
  /\ frame_buf = <<>>
  /\ lstm_state = NoneStates
  /\ latent = NoLatent
  /\ latent_means = <<>>
  /\ first_gen = <<>>
  /\ gen_images = <<>>
  /\ gen_rewards = <<>>
  /\ tower = NoTower
  /\ calls = <<>>
  /\ result = <<>>
  /\ body_out = NoBodyOut

AllFrames == [i \in 1..T |-> i - 1]

\* NextFrameSv2p.construct_model up to the first process_single_frame call
Sv2pBegin ==
  /\ pc = "start" /\ model = "Sv2p"
  /\ LET context_frames == hparams.video_num_input_frames
         buffer_size == IF hparams.reward_prediction_buffer_size = 0
                        THEN context_frames
                        ELSE hparams.reward_prediction_buffer_size
     IN IF buffer_size > context_frames
        THEN /\ pc' = "error" /\ err' = "ValueError_buffer"
             /\ UNCHANGED <<latent, latent_means, frame_buf>>
        ELSE /\ pc' = "loop" /\ err' = err
             /\ IF hparams.stochastic_model
                THEN /\ latent' = construct_latent_tower(AllFrames)
                     /\ latent_means' = <<AllFrames>>
                ELSE UNCHANGED <<latent, latent_means>>
             /\ frame_buf' = [i \in 1..buffer_size |-> zeros_like("image")]
  /\ UNCHANGED <<body_out, model, hparams, is_training, ss_var, T, step, time_step,
                 pred_image, pred_reward, lstm_state, first_gen, gen_images,
                 gen_rewards, tower, calls, result>>

\* process_single_frame: the first call made directly, the others by tf.scan
ProcessSingleFrame ==
  /\ pc = "loop" /\ model = "Sv2p"
  /\ step < NumSteps(model, T)
  /\ \E c \in SsChoices :
       LET context_frames == hparams.video_num_input_frames
           cur_image == images(step)
           generated_items == <<pred_image>>
           groundtruth_items == <<cur_image>>
           done_warm_start == time_step > context_frames - 1
           ss == get_scheduled_sample_inputs(
                   done_warm_start, groundtruth_items, generated_items, <<c>>)
           tw == construct_predictive_tower(lstm_state)
           new_image == Pred("image", time_step)
           new_buf == IF hparams.reward_prediction
                      THEN <<new_image>> \o SubSeq(frame_buf, 1,
                                                   Len(frame_buf) - 1)
                      ELSE frame_buf
           new_reward == IF hparams.reward_prediction
                         THEN Pred("reward", time_step)
                         ELSE unpredicted_reward(model, pred_reward,
                                                 pred_reward)
       IN /\ tower' = tw
          /\ IF tw.raised
             THEN /\ pc' = "error" /\ err' = "ValueError_DNA"
                  /\ lstm_state' = tw.lstm_state
                  /\ UNCHANGED <<step, time_step, pred_image, pred_reward,
                                 frame_buf, first_gen, gen_images,
                                 gen_rewards, calls>>
             ELSE /\ UNCHANGED <<pc, err>>
                  /\ lstm_state' = carry_states(tw.lstm_state)
                  /\ time_step' = next_time_step(time_step)
                  /\ step' = step + 1
                  /\ pred_image' = new_image
                  /\ pred_reward' = new_reward
                  /\ frame_buf' = new_buf
                  /\ IF step = 0
                     THEN /\ first_gen' = <<<<new_image, new_reward>>>>
                          /\ UNCHANGED <<gen_images, gen_rewards>>
                     ELSE /\ gen_images' = Append(gen_images, new_image)
                          /\ gen_rewards' = Append(gen_rewards, new_reward)
                          /\ UNCHANGED first_gen
                  /\ calls' = Append(calls,
                       [t |-> time_step,
                        done_warm_start |-> done_warm_start,
                        branch |-> ss.branch,
                        ss_calls |-> ss.ss_calls,
                        groundtruth_items |-> groundtruth_items,
                        generated_items |-> generated_items,
                        input_items |-> ss.items,
                        state_in |-> lstm_state,
                        state_out |-> tw.lstm_state,
                        latent |-> latent,
                        reward_in |-> pred_reward,
                        reward_frames |-> IF hparams.reward_prediction
                                          THEN new_buf ELSE <<>>,
                        pred_image |-> new_image,
                        pred_reward |-> new_reward])
  /\ UNCHANGED <<body_out, model, hparams, is_training, ss_var, T, latent,
                 latent_means, result>>

\* the tf.concat of the first step with the scan outputs, and the return
Sv2pReturn ==
  /\ pc = "loop" /\ model = "Sv2p"
  /\ step = NumSteps(model, T)
  /\ gen_images' = <<first_gen[1][1]>> \o gen_images
  /\ gen_rewards' = <<first_gen[1][2]>> \o gen_rewards
  /\ IF latent_means = <<>>
     THEN /\ pc' = "error" /\ err' = "UnboundLocalError"
          /\ UNCHANGED result
     ELSE /\ pc' = "done" /\ err' = err
          /\ result' = <<gen_images', gen_rewards', latent_means>>
  /\ UNCHANGED <<body_out, model, hparams, is_training, ss_var, T, step, time_step,
                 pred_image, pred_reward, frame_buf, lstm_state, latent,
                 latent_means, first_gen, tower, calls>>

\* NextFrameSv2pTwoFrames.construct_model up to its loop
TwoFramesBegin ==
  /\ pc = "start" /\ model = "TwoFrames"
  /\ pc' = "loop"
  /\ UNCHANGED <<body_out, model, hparams, is_training, ss_var, T, err, step,
                 time_step, pred_image, pred_reward, frame_buf, lstm_state,
                 latent, latent_means, first_gen, gen_images, gen_rewards,
                 tower, calls, result>>

\* one iteration of the loop of NextFrameSv2pTwoFrames.construct_model
TwoFramesIteration ==
  /\ pc = "loop" /\ model = "TwoFrames"
  /\ step < NumSteps(model, T)
  /\ \E ci \in SsChoices, cr \in SsChoices :
       LET context_frames == hparams.video_num_input_frames
           timestep == step
           image == images(step)
           reward == rewards(step)
           done_warm_start == timestep > context_frames - 1
           groundtruth_items == <<image, reward>>
           generated_items == <<pred_image, pred_reward>>
           ss == get_scheduled_sample_inputs(
                   done_warm_start, groundtruth_items, generated_items,
                   <<ci, cr>>)
           input_reward == ss.items[2]
           new_latent == construct_latent_tower(<<timestep, timestep + 1>>)
           tw == construct_predictive_tower(lstm_state)
           new_image == Pred("image", timestep)
           new_reward == IF hparams.reward_prediction
                         THEN Pred("reward", timestep)
                         ELSE unpredicted_reward(model, pred_reward,
                                                 input_reward)
       IN /\ tower' = tw
          /\ latent' = new_latent
          /\ latent_means' = Append(latent_means, new_latent.frames)
          /\ IF tw.raised
             THEN /\ pc' = "error" /\ err' = "ValueError_DNA"
                  /\ lstm_state' = tw.lstm_state
                  /\ UNCHANGED <<step, time_step, pred_image, pred_reward,
                                 gen_images, gen_rewards, calls>>
             ELSE /\ UNCHANGED <<pc, err>>
                  /\ lstm_state' = carry_states(tw.lstm_state)
                  /\ time_step' = next_time_step(timestep)
                  /\ step' = step + 1
                  /\ pred_image' = new_image
                  /\ pred_reward' = new_reward
                  /\ gen_images' = Append(gen_images, new_image)
                  /\ gen_rewards' = Append(gen_rewards, new_reward)
                  /\ calls' = Append(calls,
                       [t |-> timestep,
                        done_warm_start |-> done_warm_start,
                        branch |-> ss.branch,
                        ss_calls |-> ss.ss_calls,
                        groundtruth_items |-> groundtruth_items,
                        generated_items |-> generated_items,
                        input_items |-> ss.items,
                        state_in |-> lstm_state,
                        state_out |-> tw.lstm_state,
                        latent |-> new_latent,
                        reward_in |-> pred_reward,
                        reward_frames |-> IF hparams.reward_prediction
                                          THEN <<new_image>> ELSE <<>>,
                        pred_image |-> new_image,
                        pred_reward |-> new_reward])
  /\ UNCHANGED <<body_out, model, hparams, is_training, ss_var, T, frame_buf,
                 first_gen, result>>

\* tf.stack of the accumulated lists, and the return
TwoFramesReturn ==
  /\ pc = "loop" /\ model = "TwoFrames"
  /\ step = NumSteps(model, T)
  /\ pc' = "done"
  /\ result' = <<gen_images, gen_rewards, latent_means>>
  /\ UNCHANGED <<body_out, model, hparams, is_training, ss_var, T, err, step,
                 time_step, pred_image, pred_reward, frame_buf, lstm_state,
                 latent, latent_means, first_gen, gen_images, gen_rewards,
                 tower, calls>>

\* body, after its construct_model call has returned: the features held
\* video_num_input_frames input frames followed by the target frames
Body ==
  /\ pc = "done"
  /\ T > hparams.video_num_input_frames
  /\ LET predictions == ignore_input_predictions(
                          result[1], hparams.video_num_input_frames)
         reward_pred == ignore_input_predictions(
                          result[2], hparams.video_num_input_frames)
     IN body_out' =
          [returned |-> TRUE,
           targets |-> swap_time_and_batch_axes(predictions),
           target_reward |-> IF hparams.reward_prediction
                             THEN swap_time_and_batch_axes(reward_pred)
                             ELSE <<>>]
  /\ pc' = "returned"
  /\ UNCHANGED <<model, hparams, is_training, ss_var, T, err, step,
                 time_step, pred_image, pred_reward, frame_buf, lstm_state,
                 latent, latent_means, first_gen, gen_images, gen_rewards,
                 tower, calls, result>>

Next ==
  \/ Sv2pBegin
  \/ ProcessSingleFrame
  \/ Sv2pReturn
  \/ TwoFramesBegin
  \/ TwoFramesIteration
  \/ TwoFramesReturn
  \/ Body

Spec == Init /\ [][Next]_vars

\* ===================================================================
\* Properties
\* ===================================================================
context_frames == hparams.video_num_input_frames

RECURSIVE SumW(_)
SumW(ps) == IF ps = <<>> THEN 0 ELSE Head(ps)[2].w + SumW(Tail(ps))

RECURSIVE SumMasks(_)
SumMasks(ms) == IF ms = <<>> THEN 0 ELSE Head(ms).w + SumMasks(Tail(ms))

\* the rollout has built its two output sequences (it then returns them,
\* or fails on the return statement itself)
OutputsBuilt == pc = "done" \/ (pc = "error" /\ err = "UnboundLocalError")

\* C1: once all steps have run, gen_images and gen_rewards hold exactly T-1
\* entries, the k-th (0-based) being the output of the step whose counter
\* was k; a returned tuple carries these sequences; no step takes the last
\* ground-truth frame as its input.
C1_RolloutLength ==
  /\ OutputsBuilt =>
       /\ Len(gen_images) = T - 1
       /\ Len(gen_rewards) = T - 1
       /\ Len(calls) = T - 1
       /\ \A k \in 1..Len(gen_images) :
            /\ calls[k].t = k - 1
            /\ gen_images[k] = calls[k].pred_image
            /\ gen_images[k] = Pred("image", k - 1)
            /\ gen_rewards[k] = calls[k].pred_reward
  /\ pc = "done" => result[1] = gen_images /\ result[2] = gen_rewards
  /\ \A i \in 1..Len(calls) :
       /\ calls[i].groundtruth_items[1] = images(i - 1)
       /\ i - 1 < T - 1

C1_Witness ==
  /\ pc = "done" /\ model = "Sv2p" /\ T >= 3
  /\ Len(result[1]) = T - 1

\* C2: with stochastic_model and reward_prediction disabled (and a
\* configuration that is otherwise accepted), NextFrameSv2p.construct_model
\* raises nothing and returns T-1 predicted frames.
C2_Scenario ==
  /\ model = "Sv2p"
  /\ ~hparams.stochastic_model /\ ~hparams.reward_prediction
  /\ hparams.reward_prediction_buffer_size = 0
  /\ hparams.model_options = "CDNA"

C2_DeterministicRolloutReturns ==
  C2_Scenario =>
    /\ pc # "error"
    /\ (step = T - 1 /\ pc = "done" => Len(result[1]) = T - 1)

\* C3: at every step with counter t <= context_frames - 1 the items fed to
\* the tower are exactly the ground-truth items of step t, whatever the
\* sampling mode, the sampling variable and the training flag.
C3_WarmStartOverride ==
  \A i \in 1..Len(calls) :
    calls[i].t <= context_frames - 1 =>
      /\ calls[i].input_items = calls[i].groundtruth_items
      /\ calls[i].input_items[1] = images(calls[i].t)
      /\ (model = "TwoFrames" =>
            calls[i].input_items[2] = rewards(calls[i].t))
      /\ calls[i].branch = "groundtruth"

C3_Witness ==
  /\ ~is_training
  /\ Len(calls) >= 2
  /\ calls[2].t <= context_frames - 1
  /\ calls[2].input_items[1] = images(1)
  /\ calls[2].generated_items[1] # images(1)

\* C4: at every step with t > context_frames - 1 while not training, the
\* generated items (the previous step's outputs) are returned and the
\* sampling function is not called; it is called exactly when warm start is
\* done and the model is training, and the branch taken is the one the two
\* flags determine.
C4_NonTrainingOverride ==
  \A i \in 1..Len(calls) :
    LET c == calls[i]
        done == c.t > context_frames - 1
    IN /\ (done /\ ~is_training =>
             /\ c.input_items = c.generated_items
             /\ c.ss_calls = 0
             /\ c.branch = "generated"
             /\ i > 1
             /\ c.generated_items[1] = calls[i - 1].pred_image)
       /\ (c.ss_calls > 0 <=> (done /\ is_training))
       /\ (c.branch = "sample" <=> (done /\ is_training))
       /\ (c.branch = "groundtruth" <=> ~done)
       /\ (c.branch = "generated" <=> (done /\ ~is_training))

C4_Witness ==
  /\ ~is_training
  /\ Len(calls) >= 2
  /\ calls[2].t > context_frames - 1
  /\ calls[2].input_items[1] = Pred("image", 0)

\* C5: when DNA mode is rejected for num_masks # 1, no tower stage has run,
\* no slot of the caller's state bundle has been overwritten and no frame
\* has been produced.
C5_DnaRejectedBeforeWork ==
  /\ (hparams.model_options = "DNA" /\ hparams.num_masks # 1 =>
        gen_images = <<>> /\ first_gen = <<>> /\ pc # "done")
  /\ (pc = "error" /\ err = "ValueError_DNA" =>
        /\ tower.stages = <<>>
        /\ lstm_state = NoneStates)

\* C6: in both realizations a reward_prediction_buffer_size larger than
\* video_num_input_frames is rejected before any timestep is processed and
\* nothing is returned.
C6_BufferRejected ==
  hparams.reward_prediction_buffer_size > context_frames =>
    /\ pc \in {"start", "error"}
    /\ (pc = "error" => err = "ValueError_buffer")
    /\ calls = <<>>
    /\ tower = NoTower
    /\ result = <<>>

\* C7: whenever the tower composes an output, each of the num_masks+1
\* softmax channels multiplies exactly one candidate, so the applied weights
\* add up to the whole softmax mass.
C7_ConvexCombination ==
  (tower.stages # <<>> /\ ~tower.raised) =>
    /\ Len(tower.mask_list) = hparams.num_masks + 1
    /\ \A ch \in 0..hparams.num_masks :
         Cardinality({j \in 1..Len(tower.pairs) :
                        tower.pairs[j][2].ch = ch}) = 1
    /\ \A j \in 1..Len(tower.pairs) : tower.pairs[j][2].w > 0
    /\ SumW(tower.pairs) = SumMasks(tower.mask_list)

\* C8: the bundle returned by the tower call of step t is the bundle passed
\* to the call of step t+1, and only step 0 is passed the None bundle.
C8_StateThreaded ==
  /\ \A i \in 1..Len(calls) :
       /\ (i = 1 => calls[i].state_in = NoneStates)
       /\ (i > 1 => /\ calls[i].state_in = calls[i - 1].state_out
                    /\ \A s \in 1..NumLstm : calls[i].state_in[s] # 0)
  /\ (calls # <<>> /\ pc \in {"loop", "done"} =>
        lstm_state = calls[Len(calls)].state_out)

C8_Witness ==
  /\ Len(calls) >= 3
  /\ calls[3].state_in = [s \in 1..NumLstm |-> 2]

\* C9 as stated: with reward_prediction disabled the reward emitted by step
\* t equals the one emitted by step t-1 (the zero reward for step 0), in
\* both realizations.
C9_RewardCarriedOriginal ==
  ~hparams.reward_prediction =>
    \A i \in 1..Len(calls) :
      calls[i].pred_reward =
        (IF i = 1 THEN zeros_like("reward") ELSE calls[i - 1].pred_reward)

\* C9 amended: with reward_prediction disabled, Sv2p emits the previous
\* step's reward (zeros for step 0); TwoFrames emits the reward selected by
\* scheduled sampling for the step: the ground-truth reward of step t while
\* t <= context_frames - 1, the previously emitted reward after warm start
\* when not training, and a per-batch-element mix of the two otherwise.
C9_RewardCarriedAmended ==
  ~hparams.reward_prediction =>
    \A i \in 1..Len(calls) :
      LET c == calls[i]
          prev == IF i = 1 THEN zeros_like("reward")
                  ELSE calls[i - 1].pred_reward
      IN /\ (model = "Sv2p" =>
               c.pred_reward = prev /\ c.pred_reward = zeros_like("reward"))
         /\ (model = "TwoFrames" =>
               /\ c.pred_reward = c.input_items[2]
               /\ (c.t <= context_frames - 1 =>
                     c.pred_reward = rewards(c.t))
               /\ (c.t > context_frames - 1 /\ ~is_training =>
                     c.pred_reward = prev)
               /\ \A b \in Batch :
                    c.pred_reward[b] \in {rewards(c.t)[b], prev[b]})

C9_Witness ==
  /\ ~hparams.reward_prediction /\ model = "TwoFrames" /\ ~is_training
  /\ Len(calls) >= 3
  /\ calls[1].pred_reward = rewards(0)
  /\ calls[3].t > context_frames - 1
  /\ calls[3].pred_reward = calls[2].pred_reward

\* C10: in CDNA mode every candidate produced (the sigmoid candidate and
\* each of the num_masks kernel-transformed ones) is paired with a mask
\* channel of its own.
C10_CdnaAllCandidatesPaired ==
  (hparams.model_options = "CDNA" /\ tower.stages # <<>> /\ ~tower.raised) =>
    /\ Len(tower.transformed) = hparams.num_masks + 1
    /\ \A i \in 1..Len(tower.transformed) :
         \E j \in 1..Len(tower.pairs) :
           tower.pairs[j][1] = tower.transformed[i]
    /\ Len(tower.pairs) - 1 = Len(tower.transformed)

\* the buffer size construct_model settles on (lines 396-398)
buffer_size ==
  IF hparams.reward_prediction_buffer_size = 0 THEN context_frames
  ELSE hparams.reward_prediction_buffer_size

\* C11: with reward_prediction enabled and an accepted buffer size, in both realizations the reward
\* predictor of every step receives a frame buffer of exactly the configured
\* size (the context length when 0 is configured): the predicted frames of
\* the most recent min(t+1, size) steps, newest first, then initial zero
\* frames.
C11_FrameBufferFixedLength ==
  (hparams.reward_prediction /\ buffer_size <= context_frames) =>
    \A i \in 1..Len(calls) :
      LET c == calls[i]
      IN /\ Len(c.reward_frames) = buffer_size
         /\ \A j \in 1..Len(c.reward_frames) :
              c.reward_frames[j] =
                (IF j <= i THEN Pred("image", i - j)
                 ELSE zeros_like("image"))

\* C12: with stochastic_model disabled no latent tower runs, no step gets a
\* latent and no posterior is recorded; with it enabled Sv2p draws one latent
\* before step 0 and reuses it (one posterior), TwoFrames draws one per step
\* from ground-truth frames t and t+1 (one posterior per step).
C12_LatentOnlyIfStochastic ==
  /\ (~hparams.stochastic_model =>
        /\ latent_means = <<>>
        /\ ~latent.present
        /\ \A i \in 1..Len(calls) : ~calls[i].latent.present)
  /\ (hparams.stochastic_model /\ model = "Sv2p" /\ pc \in {"loop", "done"} =>
        /\ Len(latent_means) = 1
        /\ \A i \in 1..Len(calls) :
             calls[i].latent = construct_latent_tower(AllFrames))
  /\ (hparams.stochastic_model /\ model = "TwoFrames" /\ pc # "error" =>
        /\ Len(latent_means) = Len(calls)
        /\ (pc = "done" => Len(latent_means) = T - 1)
        /\ \A i \in 1..Len(calls) :
             /\ calls[i].latent.present
             /\ calls[i].latent.frames = <<i - 1, i>>
             /\ latent_means[i] = <<i - 1, i>>)

\* C13: the counter starts at 0 and advances by 1 per step; at step 0 the
\* generated item offered to scheduled sampling is the all-zero initial
\* frame, at every step t >= 1 it is exactly the prediction emitted by step
\* t-1; the ground-truth item offered at step t is ground-truth frame t.
C13_ReadAfterWrite ==
  /\ time_step = Len(calls)
  /\ \A i \in 1..Len(calls) :
       LET c == calls[i]
       IN /\ c.t = i - 1
          /\ c.groundtruth_items[1] = images(c.t)
          /\ (i = 1 => c.generated_items[1] = zeros_like("image"))
          /\ (i > 1 =>
                /\ c.generated_items[1] = calls[i - 1].pred_image
                /\ c.generated_items[1] = Pred("image", c.t - 1)
                /\ \A k \in 1..Len(calls) :
                     k # i - 1 => c.generated_items[1] # calls[k].pred_image)
          /\ (model = "TwoFrames" =>
                /\ c.groundtruth_items[2] = rewards(c.t)
                /\ c.generated_items[2] =
                     (IF i = 1 THEN zeros_like("reward")
                      ELSE calls[i - 1].pred_reward))

C13_Witness ==
  /\ Len(calls) >= 3
  /\ calls[3].t = 2
  /\ calls[3].generated_items[1] = Pred("image", 1)
  /\ calls[3].groundtruth_items[1] = images(2)

\* video_num_target_frames of a body call: the frames after the inputs
video_num_target_frames == T - hparams.video_num_input_frames

\* C14: body returns, for every batch element, exactly
\* video_num_target_frames target entries, the rollout outputs of steps
\* C-1 .. C+N-2 in time order (likewise target_reward when reward
\* prediction is enabled).
C14_BodyDropsContextPredictions ==
  pc = "returned" =>
    /\ body_out.returned
    /\ \A b \in Batch :
         /\ Len(body_out.targets[b]) = video_num_target_frames
         /\ \A j \in 1..video_num_target_frames :
              /\ body_out.targets[b][j] =
                   calls[context_frames - 1 + j].pred_image[b]
              /\ calls[context_frames - 1 + j].t = context_frames + j - 2
              /\ body_out.targets[b][j] =
                   Pred("image", context_frames + j - 2)[b]
         /\ (hparams.reward_prediction =>
               /\ Len(body_out.target_reward[b]) = video_num_target_frames
               /\ \A j \in 1..video_num_target_frames :
                    body_out.target_reward[b][j] =
                      calls[context_frames - 1 + j].pred_reward[b])

C14_Witness ==
  /\ pc = "returned"
  /\ hparams.reward_prediction
  /\ context_frames = 2 /\ video_num_target_frames = 2
  /\ \A b \in Batch :
       /\ body_out.targets[b] = <<Pred("image", 1)[b], Pred("image", 2)[b]>>
       /\ Len(body_out.target_reward[b]) = 2

====
